---- MODULE Spec2Model ----
(***************************************************************************)
(* The audio player of script.js (lines 359-409): the media element, the   *)
(* seek bar, the two time displays and the play button, with the handlers  *)
(* setDuration, togglePlay, the timeupdate listener, handleSeek and the    *)
(* pure function formatTime; and the navigation of the same file: the      *)
(* dropdown menus (lines 37-86), the debounced resize listener (lines      *)
(* 290-313), the hamburger menu (lines 337-353) and throttle (lines        *)
(* 257-267).                                                               *)
(*                                                                         *)
(* Numbers.  A JavaScript number is a record: Fin(n) is the finite value   *)
(* n/Res (n counts ticks of 1/Res second), NaN, PosInf and NegInf are the  *)
(* three non-finite values.  Strings are sequences of one-character        *)
(* strings, so that "0:00" is <<"0", ":", "0", "0">>.                      *)
(***************************************************************************)
EXTENDS Integers, Sequences, FiniteSets, TLC

VARIABLES
    readyState,             \* audio.readyState
    duration,               \* audio.duration
    currentTime,            \* audio.currentTime
    paused,                 \* audio.paused
    pendingLoadedMetadata,  \* a loadedmetadata event is queued, not yet dispatched
    initialized,            \* lines 359-396 have run: the listeners are attached
    backupRan,              \* the readiness check of line 371 called setDuration
    seekBarMax,             \* seekBar.max
    seekBarValue,           \* seekBar.value
    playBtn,                \* playBtn.innerHTML
    currentTimeDisplay,     \* currentTimeDisplay.innerHTML
    totalTimeDisplay,       \* totalTimeDisplay.innerHTML
    op,                     \* the handler the last step ran ("env": none)
    issued,                 \* the commands the last step issued to the audio element
    arg,                    \* formatTime's argument (specification SpecFormat)
    called,                 \* formatTime has been applied to arg
    result,                 \* what it returned
    dragging,               \* the user is holding the seek bar's thumb
    innerWidth,             \* window.innerWidth
    pointer,                \* the nav item the mouse pointer is inside (0: none)
    dropdownStyle,          \* each dropdown's inline opacity, visibility, transform
    hoverTimeout,           \* each nav item's pending hide timer: ticks left, or NoTimer
    dTimeout,               \* debounce: the pending timer of `timeout`: ticks left, or NoTimer
    dArgs,                  \* debounce: the args the pending `later` closes over
    dAwaiting,              \* debounce: called, and func not invoked since
    dSince,                 \* debounce: ticks elapsed since the last call
    hamburgerActive,        \* hamburger has class 'is-active'
    navActive,              \* navContainer has class 'active'
    tTimeout,               \* throttle: the pending timer of `timeout`: ticks left, or NoTimer
    tArgs,                  \* throttle: the args the pending `later` closes over
    tAwaiting,              \* throttle: called, and func not invoked since
    tSinceFirst             \* throttle: ticks elapsed since the first such call

vars == <<readyState, duration, currentTime, paused, pendingLoadedMetadata,
          initialized, backupRan, seekBarMax, seekBarValue, playBtn,
          currentTimeDisplay, totalTimeDisplay, op, issued, arg, called, result,
          dragging, innerWidth, pointer, dropdownStyle, hoverTimeout, dTimeout,
          dArgs, dAwaiting, dSince, hamburgerActive, navActive, tTimeout, tArgs,
          tAwaiting, tSinceFirst>>

audioVars   == <<readyState, duration, currentTime, paused, pendingLoadedMetadata>>
formatVars  == <<arg, called, result>>
dropdownVars == <<innerWidth, pointer, dropdownStyle, hoverTimeout>>
debounceVars == <<dTimeout, dArgs, dAwaiting, dSince>>
menuVars     == <<hamburgerActive, navActive>>
throttleVars == <<tTimeout, tArgs, tAwaiting, tSinceFirst>>
pageVars     == <<dropdownVars, debounceVars, menuVars, throttleVars>>
playerVars   == <<readyState, duration, currentTime, paused, pendingLoadedMetadata,
                 initialized, backupRan, seekBarMax, seekBarValue, playBtn,
                 currentTimeDisplay, totalTimeDisplay, dragging>>

----------------------------------------------------------------------------
(* Bounds *)

\* ticks per second
Res == 2
\* the largest playback position of the player model, in ticks
MaxTime == 141
\* the media clock is observed at multiples of Stride ticks
Stride == 47
\* formatTime is applied to every tick value up to this many seconds
MaxFmtSeconds == 130

----------------------------------------------------------------------------
(* JavaScript numbers and strings *)

Fin(n) == [k |-> "fin", v |-> n]
NaN    == [k |-> "nan", v |-> 0]
PosInf == [k |-> "inf", v |-> 1]
NegInf == [k |-> "inf", v |-> -1]
\* seekBar.max before the script writes it
Unset  == [k |-> "unset", v |-> 0]

isNaN(x)    == x.k = "nan"
IsFinite(x) == x.k = "fin"

Digit == <<"0", "1", "2", "3", "4", "5", "6", "7", "8", "9">>

RECURSIVE DecDigits(_)
DecDigits(n) ==
    IF n < 10 THEN <<Digit[n + 1]>>
    ELSE DecDigits(n \div 10) \o <<Digit[(n % 10) + 1]>>

\* Number-to-string conversion of an integer-valued or non-finite number.
JsToString(x) ==
    CASE x.k = "nan" -> <<"N", "a", "N">>
      [] x.k = "inf" ->
            IF x.v > 0 THEN <<"I", "n", "f", "i", "n", "i", "t", "y">>
            ELSE <<"-", "I", "n", "f", "i", "n", "i", "t", "y">>
      [] x.k = "fin" ->
            LET w == x.v \div Res
            IN  IF w < 0 THEN <<"-">> \o DecDigits(-w) ELSE DecDigits(w)

\* Math.floor(x / d) for a positive integer d
MathFloorDiv(x, d) ==
    IF x.k = "fin" THEN Fin((x.v \div (d * Res)) * Res) ELSE x

\* x % d for a positive integer d: the remainder has the sign of x
JsRem(x, d) ==
    IF x.k = "fin"
    THEN IF x.v >= 0 THEN Fin(x.v % (d * Res))
         ELSE Fin(0 - ((0 - x.v) % (d * Res)))
    ELSE NaN

\* Math.floor(x)
MathFloor(x) ==
    IF x.k = "fin" THEN Fin((x.v \div Res) * Res) ELSE x

\* x < n for an integer n: false when x is NaN
JsLess(x, n) ==
    CASE x.k = "fin" -> x.v < n * Res
      [] x.k = "inf" -> x.v < 0
      [] OTHER       -> FALSE

----------------------------------------------------------------------------
(* formatTime, script.js lines 404-409 *)

formatTimeNoPad(seconds) ==
    IF isNaN(seconds) THEN <<"0", ":", "0", "0">>
    ELSE LET min == MathFloorDiv(seconds, 60)
             sec == MathFloor(JsRem(seconds, 60))
         IN  JsToString(min) \o <<":">> \o JsToString(sec)

formatTime(seconds) ==
    IF isNaN(seconds) THEN <<"0", ":", "0", "0">>
    ELSE LET min == MathFloorDiv(seconds, 60)
             sec == MathFloor(JsRem(seconds, 60))
         IN  JsToString(min) \o <<":">> \o
                (IF JsLess(sec, 10) THEN <<"0">> \o JsToString(sec)
                 ELSE JsToString(sec))

----------------------------------------------------------------------------
(* The page before the script runs *)

PlayGlyph  == "▶"
PauseGlyph == "||"       \* the label of line 383

TimePoints == {t \in 0..MaxTime : t % Stride = 0}
Durations  == {PosInf} \cup {Fin(t) : t \in TimePoints \ {0}}

\* no timer is pending (`let hoverTimeout;`, `let timeout;`)
NoTimer == -1

\* program constants
HoverDelay == 200
ResizeWait == 250
MobileBreakpoint == 768

\* the number of nav items that have a dropdown
NumItems == 2
\* the length of one clock tick, in ms
TimeUnit == 100

Items  == 1..NumItems
Widths == {MobileBreakpoint, MobileBreakpoint + 1}

\* a dropdown's three inline style properties
EmptyStyle  == [opacity |-> "", visibility |-> "", transform |-> ""]
OpenStyle   == [opacity |-> "1", visibility |-> "visible",
                transform |-> "translateY(0)"]
ClosedStyle == [opacity |-> "0", visibility |-> "hidden",
                transform |-> "translateY(-10px)"]

\* The rest of the page before any event: no inline style, no timer, the
\* mobile menu closed.
PageInit ==
    /\ innerWidth = MobileBreakpoint + 1
    /\ pointer = 0
    /\ dropdownStyle = [i \in Items |-> EmptyStyle]
    /\ hoverTimeout = [i \in Items |-> NoTimer]
    /\ dTimeout = NoTimer
    /\ dArgs = 0
    /\ dAwaiting = FALSE
    /\ dSince = 0
    /\ hamburgerActive = FALSE
    /\ navActive = FALSE
    /\ tTimeout = NoTimer
    /\ tArgs = 0
    /\ tAwaiting = FALSE
    /\ tSinceFirst = 0

Init ==
    /\ readyState = 0
    /\ duration = NaN
    /\ currentTime = Fin(0)
    /\ paused = TRUE
    /\ pendingLoadedMetadata = FALSE
    /\ initialized = FALSE
    /\ backupRan = FALSE
    /\ seekBarMax = Unset
    /\ seekBarValue = Fin(0)
    /\ playBtn = PlayGlyph
    /\ currentTimeDisplay = <<"0", ":", "0", "0">>
    /\ totalTimeDisplay = <<"0", ":", "0", "0">>
    /\ op = "env"
    /\ issued = <<>>
    /\ arg = NaN
    /\ called = FALSE
    /\ result = <<>>
    /\ dragging = FALSE
    /\ PageInit

----------------------------------------------------------------------------
(* The audio element and the seek bar, as the page drives them *)

\* playback has reached the end of the media
Ended == IsFinite(duration) /\ currentTime.v >= duration.v

\* audio.play(): playback starts at once; from the end it restarts at 0
AudioPlay ==
    /\ paused' = FALSE
    /\ currentTime' = IF Ended THEN Fin(0) ELSE currentTime

\* audio.pause()
AudioPause ==
    /\ paused' = TRUE
    /\ currentTime' = currentTime

\* The media's metadata arrives: the duration becomes known and a
\* loadedmetadata event is queued.
MetadataLoaded ==
    /\ readyState = 0
    /\ readyState' = 1
    /\ \E d \in Durations : duration' = d
    /\ pendingLoadedMetadata' = TRUE
    /\ op' = "env"
    /\ issued' = <<>>
    /\ UNCHANGED <<currentTime, paused, initialized, backupRan, seekBarMax,
                   seekBarValue, playBtn, currentTimeDisplay, totalTimeDisplay>>
    /\ UNCHANGED <<formatVars, pageVars, dragging>>

\* The media clock moves forward while playing.
ClockAdvance ==
    /\ ~paused
    /\ readyState >= 1
    /\ ~Ended
    /\ \E t \in TimePoints :
          /\ t > currentTime.v
          /\ IsFinite(duration) => t <= duration.v
          /\ currentTime' = Fin(t)
    /\ op' = "env"
    /\ issued' = <<>>
    /\ UNCHANGED <<readyState, duration, paused, pendingLoadedMetadata,
                   initialized, backupRan, seekBarMax, seekBarValue, playBtn,
                   currentTimeDisplay, totalTimeDisplay>>
    /\ UNCHANGED <<formatVars, pageVars, dragging>>

\* Playback reaches the end of the media: the element pauses itself.
MediaEnded ==
    /\ ~paused
    /\ readyState >= 1
    /\ Ended
    /\ paused' = TRUE
    /\ op' = "env"
    /\ issued' = <<>>
    /\ UNCHANGED <<readyState, duration, currentTime, pendingLoadedMetadata,
                   initialized, backupRan, seekBarMax, seekBarValue, playBtn,
                   currentTimeDisplay, totalTimeDisplay>>
    /\ UNCHANGED <<formatVars, pageVars, dragging>>

\* The largest value the seek bar lets the user drag to: its max once that
\* is a finite number, the widget's default otherwise.
WidgetMax == IF IsFinite(seekBarMax) THEN seekBarMax.v ELSE MaxTime

\* The user drags the seek bar to a position.
UserDrag ==
    /\ \E t \in TimePoints :
          /\ t <= WidgetMax
          /\ seekBarValue' = Fin(t)
    /\ op' = "env"
    /\ issued' = <<>>
    /\ UNCHANGED audioVars
    /\ dragging' = TRUE
    /\ UNCHANGED <<initialized, backupRan, seekBarMax, playBtn,
                   currentTimeDisplay, totalTimeDisplay>>
    /\ UNCHANGED <<formatVars, pageVars>>

\* The user lets go of the seek bar.
UserRelease ==
    /\ dragging
    /\ dragging' = FALSE
    /\ op' = "env"
    /\ issued' = <<>>
    /\ UNCHANGED audioVars
    /\ UNCHANGED <<initialized, backupRan, seekBarMax, seekBarValue, playBtn,
                   currentTimeDisplay, totalTimeDisplay>>
    /\ UNCHANGED <<formatVars, pageVars>>

----------------------------------------------------------------------------
(* setDuration, script.js lines 375-378 *)

SetDurationAppend ==
    /\ seekBarMax' = duration
    /\ totalTimeDisplay' = totalTimeDisplay \o formatTime(duration)

SetDuration ==
    /\ seekBarMax' = duration
    /\ totalTimeDisplay' = formatTime(duration)

(* The script's top level, lines 359-373 and 391: the listeners are attached
   and the readiness check runs. *)
ControllerInitNoBackup ==
    /\ ~initialized
    /\ initialized' = TRUE
    /\ UNCHANGED <<seekBarMax, totalTimeDisplay, backupRan>>
    /\ op' = "init"
    /\ issued' = <<>>
    /\ UNCHANGED audioVars
    /\ UNCHANGED <<seekBarValue, playBtn, currentTimeDisplay>>
    /\ UNCHANGED <<formatVars, pageVars, dragging>>

ControllerInit ==
    /\ ~initialized
    /\ initialized' = TRUE
    /\ IF readyState >= 1
       THEN SetDuration /\ backupRan' = TRUE
       ELSE UNCHANGED <<seekBarMax, totalTimeDisplay, backupRan>>
    /\ op' = "init"
    /\ issued' = <<>>
    /\ UNCHANGED audioVars
    /\ UNCHANGED <<seekBarValue, playBtn, currentTimeDisplay>>
    /\ UNCHANGED <<formatVars, pageVars, dragging>>

\* The loadedmetadata listener, lines 366-368.
OnLoadedMetadata ==
    /\ pendingLoadedMetadata
    /\ initialized
    /\ pendingLoadedMetadata' = FALSE
    /\ SetDuration
    /\ op' = "loadedmetadata"
    /\ issued' = <<>>
    /\ UNCHANGED <<readyState, duration, currentTime, paused>>
    /\ UNCHANGED <<initialized, backupRan, seekBarValue, playBtn, currentTimeDisplay>>
    /\ UNCHANGED <<formatVars, pageVars, dragging>>

\* The loadedmetadata event is dispatched before line 366 has attached the
\* listener: nothing hears it.
LoadedMetadataUnheard ==
    /\ pendingLoadedMetadata
    /\ ~initialized
    /\ pendingLoadedMetadata' = FALSE
    /\ op' = "env"
    /\ issued' = <<>>
    /\ UNCHANGED <<readyState, duration, currentTime, paused>>
    /\ UNCHANGED <<initialized, backupRan, seekBarMax, seekBarValue, playBtn,
                   currentTimeDisplay, totalTimeDisplay>>
    /\ UNCHANGED <<formatVars, pageVars, dragging>>

\* The page calls the global function setDuration() itself.
CallSetDuration ==
    /\ initialized
    /\ SetDuration
    /\ op' = "setDuration"
    /\ issued' = <<>>
    /\ UNCHANGED audioVars
    /\ UNCHANGED <<initialized, backupRan, seekBarValue, playBtn, currentTimeDisplay>>
    /\ UNCHANGED <<formatVars, pageVars, dragging>>

----------------------------------------------------------------------------
(* togglePlay, script.js lines 380-388 *)

togglePlayStaleLabel ==
    /\ initialized
    /\ IF paused
       THEN AudioPlay /\ issued' = <<"play">> /\ playBtn' = PlayGlyph
       ELSE AudioPause /\ issued' = <<"pause">> /\ playBtn' = PauseGlyph
    /\ op' = "togglePlay"
    /\ UNCHANGED <<readyState, duration, pendingLoadedMetadata>>
    /\ UNCHANGED <<initialized, backupRan, seekBarMax, seekBarValue,
                   currentTimeDisplay, totalTimeDisplay>>
    /\ UNCHANGED <<formatVars, pageVars, dragging>>

togglePlay ==
    /\ initialized
    /\ IF paused
       THEN AudioPlay /\ issued' = <<"play">> /\ playBtn' = PauseGlyph
       ELSE AudioPause /\ issued' = <<"pause">> /\ playBtn' = PlayGlyph
    /\ op' = "togglePlay"
    /\ UNCHANGED <<readyState, duration, pendingLoadedMetadata>>
    /\ UNCHANGED <<initialized, backupRan, seekBarMax, seekBarValue,
                   currentTimeDisplay, totalTimeDisplay>>
    /\ UNCHANGED <<formatVars, pageVars, dragging>>

----------------------------------------------------------------------------
(* The timeupdate listener, script.js lines 391-396 *)

OnTimeUpdateWritesBack ==
    /\ initialized
    /\ IF ~paused
       THEN /\ currentTime' = seekBarValue
            /\ seekBarValue' = seekBarValue
            /\ currentTimeDisplay' = formatTime(currentTime)
       ELSE UNCHANGED <<currentTime, seekBarValue, currentTimeDisplay>>
    /\ op' = "timeupdate"
    /\ issued' = <<>>
    /\ UNCHANGED <<readyState, duration, paused, pendingLoadedMetadata>>
    /\ UNCHANGED <<initialized, backupRan, seekBarMax, playBtn, totalTimeDisplay>>
    /\ UNCHANGED <<formatVars, pageVars, dragging>>

OnTimeUpdateUnguarded ==
    /\ initialized
    /\ seekBarValue' = currentTime
    /\ currentTimeDisplay' = formatTime(currentTime)
    /\ op' = "timeupdate"
    /\ issued' = <<>>
    /\ UNCHANGED audioVars
    /\ UNCHANGED <<initialized, backupRan, seekBarMax, playBtn, totalTimeDisplay>>
    /\ UNCHANGED <<formatVars, pageVars, dragging>>

OnTimeUpdateLabelOnly ==
    /\ initialized
    /\ IF ~paused
       THEN /\ seekBarValue' = seekBarValue
            /\ currentTimeDisplay' = formatTime(currentTime)
       ELSE UNCHANGED <<seekBarValue, currentTimeDisplay>>
    /\ op' = "timeupdate"
    /\ issued' = <<>>
    /\ UNCHANGED audioVars
    /\ UNCHANGED <<initialized, backupRan, seekBarMax, playBtn, totalTimeDisplay>>
    /\ UNCHANGED <<formatVars, pageVars, dragging>>

OnTimeUpdate ==
    /\ initialized
    /\ IF ~paused
       THEN /\ seekBarValue' = currentTime
            /\ currentTimeDisplay' = formatTime(currentTime)
       ELSE UNCHANGED <<seekBarValue, currentTimeDisplay>>
    /\ op' = "timeupdate"
    /\ issued' = <<>>
    /\ UNCHANGED audioVars
    /\ UNCHANGED <<initialized, backupRan, seekBarMax, playBtn, totalTimeDisplay>>
    /\ UNCHANGED <<formatVars, pageVars, dragging>>

----------------------------------------------------------------------------
(* handleSeek, script.js lines 399-402 *)

handleSeekNoDisplay ==
    /\ initialized
    /\ currentTime' = seekBarValue
    /\ currentTimeDisplay' = currentTimeDisplay
    /\ op' = "handleSeek"
    /\ issued' = <<>>
    /\ UNCHANGED <<readyState, duration, paused, pendingLoadedMetadata>>
    /\ UNCHANGED <<initialized, backupRan, seekBarMax, seekBarValue, playBtn,
                   totalTimeDisplay>>
    /\ UNCHANGED <<formatVars, pageVars, dragging>>

handleSeek ==
    /\ initialized
    /\ currentTime' = seekBarValue
    /\ currentTimeDisplay' = formatTime(currentTime')
    /\ op' = "handleSeek"
    /\ issued' = <<>>
    /\ UNCHANGED <<readyState, duration, paused, pendingLoadedMetadata>>
    /\ UNCHANGED <<initialized, backupRan, seekBarMax, seekBarValue, playBtn,
                   totalTimeDisplay>>
    /\ UNCHANGED <<formatVars, pageVars, dragging>>

----------------------------------------------------------------------------
(* The player *)

Next ==
    \/ MetadataLoaded
    \/ ClockAdvance
    \/ MediaEnded
    \/ UserDrag
    \/ UserRelease
    \/ ControllerInit
    \/ OnLoadedMetadata
    \/ LoadedMetadataUnheard
    \/ CallSetDuration
    \/ togglePlay
    \/ OnTimeUpdate
    \/ handleSeek

Spec == Init /\ [][Next]_vars

\* The script runs, and the event loop dispatches every queued event.
FairSpec ==
    /\ Spec
    /\ WF_vars(ControllerInit)
    /\ WF_vars(OnLoadedMetadata)
    /\ WF_vars(LoadedMetadataUnheard)

----------------------------------------------------------------------------
(* formatTime applied to one argument *)

FmtInputs ==
    {Fin(n) : n \in (0 - MaxFmtSeconds * Res)..(MaxFmtSeconds * Res)}
        \cup {NaN, PosInf, NegInf}

FmtInit ==
    /\ Init!1 /\ Init!2 /\ Init!3 /\ Init!4 /\ Init!5 /\ Init!6 /\ Init!7
    /\ Init!8 /\ Init!9 /\ Init!10 /\ Init!11 /\ Init!12 /\ Init!13 /\ Init!14
    /\ arg \in FmtInputs
    /\ called = FALSE
    /\ result = <<>>
    /\ dragging = FALSE
    /\ PageInit

ApplyFormatTime ==
    /\ ~called
    /\ called' = TRUE
    /\ result' = formatTime(arg)
    /\ arg' = arg
    /\ UNCHANGED audioVars
    /\ UNCHANGED <<initialized, backupRan, seekBarMax, seekBarValue, playBtn,
                   currentTimeDisplay, totalTimeDisplay, op, issued>>
    /\ UNCHANGED <<pageVars, dragging>>

FmtNext == ApplyFormatTime

SpecFormat == FmtInit /\ [][FmtNext]_vars

----------------------------------------------------------------------------
(* Properties of the player *)

\* C1: in every reachable state the play button label reflects audio.paused:
\* the play glyph when the audio is paused, the pause glyph when it plays,
\* also after the media pauses itself at its end.
LabelReflectsPaused ==
    playBtn = IF paused THEN PlayGlyph ELSE PauseGlyph

\* C2: togglePlay called while paused issues exactly a play command and
\* sets the label to the pause glyph; called while playing it issues exactly
\* a pause command and sets the label to the play glyph; the label is
\* written in the same step and shows the new state.
ToggleIssuesCommandAndLabel ==
    [][op' = "togglePlay" =>
          IF paused
          THEN issued' = <<"play">> /\ playBtn' = PauseGlyph /\ ~paused'
          ELSE issued' = <<"pause">> /\ playBtn' = PlayGlyph /\ paused']_vars

ToggledBothWays ==
    /\ op = "togglePlay"
    /\ issued = <<"pause">>
    /\ playBtn = PlayGlyph
    /\ paused

\* C3: while the audio is paused, a timeupdate notification changes neither
\* the scrub bar value nor the elapsed-time display.
TimeUpdateWhilePausedKeepsPosition ==
    [][(op' = "timeupdate" /\ paused) =>
          (seekBarValue' = seekBarValue /\
           currentTimeDisplay' = currentTimeDisplay)]_vars

PausedTimeUpdateLeftPendingSeek ==
    /\ op = "timeupdate"
    /\ paused
    /\ seekBarValue # currentTime
    /\ currentTimeDisplay # formatTime(currentTime)

\* C4: right after a timeupdate notification handled while the audio is not
\* paused, the scrub bar value equals audio.currentTime and the elapsed-time
\* display equals formatTime(audio.currentTime).
TimeUpdateWhilePlayingSyncs ==
    (op = "timeupdate" /\ ~paused) =>
        (seekBarValue = currentTime /\
         currentTimeDisplay = formatTime(currentTime))

PlayingTimeUpdateSynced ==
    /\ op = "timeupdate"
    /\ ~paused
    /\ currentTime.v > 0
    /\ seekBarValue = currentTime
    /\ currentTimeDisplay = formatTime(currentTime)

\* C5: right after handleSeek, audio.currentTime equals the scrub bar value
\* and the elapsed-time display equals formatTime of it, paused or playing,
\* with no timeupdate notification in between.
SeekWritesTimeAndDisplay ==
    op = "handleSeek" =>
        (currentTime = seekBarValue /\
         currentTimeDisplay = formatTime(seekBarValue))

SeekedWhilePlaying ==
    /\ op = "handleSeek"
    /\ ~paused
    /\ seekBarValue.v > 0
    /\ currentTime = seekBarValue

BoundSet ==
    /\ seekBarMax = duration
    /\ totalTimeDisplay = formatTime(duration)

\* C6: in both orderings of the readiness race, once the metadata is ready
\* and the script has run, the scrub bar's upper bound eventually equals
\* audio.duration and the total-time display equals formatTime of it; and
\* once the loadedmetadata event has been dispatched too, they are equal.
MetadataReadyLeadsToBound ==
    /\ [](initialized /\ readyState >= 1 /\ ~pendingLoadedMetadata => BoundSet)
    /\ (initialized /\ readyState >= 1) ~> BoundSet

LateSubscriptionBoundSet ==
    /\ op = "init"
    /\ backupRan
    /\ ~pendingLoadedMetadata
    /\ BoundSet

\* the last step ran setDuration
SetDurationRan ==
    \/ op = "loadedmetadata"
    \/ op = "setDuration"
    \/ op = "init" /\ backupRan

\* C7: every write to seekBar.max happens in a state where audio.duration
\* is a finite number.
BoundWrittenOnlyWhenFinite ==
    SetDurationRan => IsFinite(duration)

\* C8: setDuration is idempotent: a second call right after a first one
\* leaves the scrub bar's upper bound and the total-time display as the
\* first call left them, and changes nothing else.
SetDurationIdempotent ==
    [][(SetDurationRan /\ SetDurationRan') =>
          UNCHANGED <<seekBarMax, totalTimeDisplay, seekBarValue, playBtn,
                      currentTimeDisplay, readyState, duration, currentTime,
                      paused, initialized>>]_vars

SetDurationCalledTwice ==
    /\ op = "loadedmetadata"
    /\ backupRan
    /\ BoundSet

----------------------------------------------------------------------------
(* Properties of formatTime *)

RECURSIVE Contains(_, _)
\* the string s contains the string w
Contains(s, w) ==
    IF Len(s) < Len(w) THEN FALSE
    ELSE SubSeq(s, 1, Len(w)) = w \/ Contains(Tail(s), w)

\* C9: for every non-finite seconds value formatTime returns "0:00", and
\* never a string containing "NaN".
NonFiniteFormatsAsFallback ==
    (called /\ ~IsFinite(arg)) =>
        (result = <<"0", ":", "0", "0">> /\ ~Contains(result, <<"N", "a", "N">>))

PadTwo(n) == <<Digit[(n \div 10) + 1], Digit[(n % 10) + 1]>>

\* floor(s/60), ":", floor(s mod 60) in two digits, for s = n/Res seconds
MinutesSeconds(n) ==
    LET whole == n \div Res
    IN  DecDigits(whole \div 60) \o <<":">> \o PadTwo(whole % 60)

\* C10: for every non-negative finite s, formatTime(s) is the unpadded
\* floor(s/60), ":", and floor(s mod 60) in exactly two digits; and
\* formatTime of 0, 59, 60, 125 is "0:00", "0:59", "1:00", "2:05".
FormatTimeIsMinutesSeconds ==
    /\ (called /\ IsFinite(arg) /\ arg.v >= 0) => result = MinutesSeconds(arg.v)
    /\ called =>
          /\ formatTime(Fin(0)) = <<"0", ":", "0", "0">>
          /\ formatTime(Fin(59 * Res)) = <<"0", ":", "5", "9">>
          /\ formatTime(Fin(60 * Res)) = <<"1", ":", "0", "0">>
          /\ formatTime(Fin(125 * Res)) = <<"2", ":", "0", "5">>

FormattedTwoMinutesFive ==
    /\ called
    /\ arg = Fin(125 * Res)
    /\ result = <<"2", ":", "0", "5">>

----------------------------------------------------------------------------
(* Who writes audio.currentTime; the seek bar while it is held *)

\* C11: togglePlay, setDuration and the timeupdate handler leave
\* audio.currentTime unchanged.
OnlyHandleSeekChangesTime ==
    [][op' \in {"togglePlay", "setDuration", "loadedmetadata", "init",
                "timeupdate"} => currentTime' = currentTime]_vars

\* C11, amended: setDuration (from any caller) and the timeupdate handler
\* leave audio.currentTime unchanged, handleSeek sets it to the scrub bar
\* value, and togglePlay leaves it unchanged except that the play command
\* issued at the end of the media restarts playback at 0.
OnlySeekAndRestartChangeTime ==
    [][/\ op' \in {"setDuration", "loadedmetadata", "init", "timeupdate"}
            => currentTime' = currentTime
       /\ op' = "togglePlay"
            => currentTime' = IF paused /\ Ended THEN Fin(0) ELSE currentTime
       /\ op' = "handleSeek" => currentTime' = seekBarValue]_vars

RestartedFromEnd ==
    /\ op = "togglePlay"
    /\ ~paused
    /\ currentTime = Fin(0)
    /\ currentTimeDisplay # formatTime(currentTime)

\* C12: while the user holds the scrub control and the audio is playing, no
\* timeupdate notification overwrites the scrub bar value.
DragSuppressesTimeUpdate ==
    [][(op' = "timeupdate" /\ dragging /\ ~paused) =>
          seekBarValue' = seekBarValue]_vars

----------------------------------------------------------------------------
(* Timers.  A timer is the number of clock ticks left until it runs; a
   timer that is due (0 ticks left) runs before the clock moves on. *)

\* a delay of ms milliseconds in whole ticks, rounded up
Ticks(ms) == (ms + TimeUnit - 1) \div TimeUnit

\* a timer one tick later
Elapse(t) == IF t = NoTimer THEN NoTimer ELSE t - 1

\* the ticks left of the pending timers of the navigation
NavTimers ==
    {hoverTimeout[i] : i \in {j \in Items : hoverTimeout[j] # NoTimer}}
        \cup (IF dTimeout # NoTimer THEN {dTimeout} ELSE {})

----------------------------------------------------------------------------
(* debounce, script.js lines 290-300, as used by the resize listener of
   lines 303-313 *)

\* the returned function is called with args while a timer is pending or not
debounceCallKeepsTimer(args, wait) ==
    /\ IF dTimeout # NoTimer
       THEN UNCHANGED <<dTimeout, dArgs>>
       ELSE dTimeout' = Ticks(wait) /\ dArgs' = args
    /\ dAwaiting' = TRUE
    /\ dSince' = 0

\* executedFunction(...args): clearTimeout(timeout); timeout = setTimeout(later, wait)
debounceCall(args, wait) ==
    /\ dTimeout' = Ticks(wait)
    /\ dArgs' = args
    /\ dAwaiting' = TRUE
    /\ dSince' = 0

\* later(): clearTimeout(timeout) of the timer that is running; func(...args)
\* is the caller's part
debounceLater ==
    /\ dTimeout' = NoTimer
    /\ dAwaiting' = FALSE
    /\ UNCHANGED <<dArgs, dSince>>

----------------------------------------------------------------------------
(* Dropdown menus, script.js lines 37-86, and the resize listener *)

MouseEnterNoClear(i) ==
    /\ pointer = 0
    /\ pointer' = i
    /\ hoverTimeout' = hoverTimeout
    /\ dropdownStyle' = [dropdownStyle EXCEPT ![i] = OpenStyle]
    /\ op' = "mouseenter"
    /\ issued' = <<>>
    /\ UNCHANGED <<innerWidth, debounceVars, menuVars, throttleVars>>
    /\ UNCHANGED <<playerVars, formatVars>>

\* mouseenter on nav item i, lines 48-53; issued records a clearTimeout
\* that cancels a pending timer
MouseEnter(i) ==
    /\ pointer = 0
    /\ pointer' = i
    /\ hoverTimeout' = [hoverTimeout EXCEPT ![i] = NoTimer]
    /\ dropdownStyle' = [dropdownStyle EXCEPT ![i] = OpenStyle]
    /\ op' = "mouseenter"
    /\ issued' = IF hoverTimeout[i] # NoTimer THEN <<"clearTimeout">> ELSE <<>>
    /\ UNCHANGED <<innerWidth, debounceVars, menuVars, throttleVars>>
    /\ UNCHANGED <<playerVars, formatVars>>

\* mouseleave on nav item i, lines 55-61
MouseLeave(i) ==
    /\ pointer = i
    /\ pointer' = 0
    /\ hoverTimeout' = [hoverTimeout EXCEPT ![i] = Ticks(HoverDelay)]
    /\ op' = "mouseleave"
    /\ issued' = <<>>
    /\ UNCHANGED <<innerWidth, dropdownStyle, debounceVars, menuVars, throttleVars>>
    /\ UNCHANGED <<playerVars, formatVars>>

\* the timer callback of lines 56-60
HoverTimerFires(i) ==
    /\ hoverTimeout[i] = 0
    /\ hoverTimeout' = [hoverTimeout EXCEPT ![i] = NoTimer]
    /\ dropdownStyle' = [dropdownStyle EXCEPT ![i] = ClosedStyle]
    /\ op' = "hoverTimeout"
    /\ issued' = <<>>
    /\ UNCHANGED <<innerWidth, pointer, debounceVars, menuVars, throttleVars>>
    /\ UNCHANGED <<playerVars, formatVars>>

NavLinkClickNoTransform(i) ==
    /\ pointer = i
    /\ IF innerWidth <= MobileBreakpoint
       THEN LET isVisible == dropdownStyle[i].visibility = "visible"
            IN  dropdownStyle' = [dropdownStyle EXCEPT ![i] =
                    [opacity    |-> IF isVisible THEN "0" ELSE "1",
                     visibility |-> IF isVisible THEN "hidden" ELSE "visible",
                     transform  |-> dropdownStyle[i].transform]]
       ELSE UNCHANGED dropdownStyle
    /\ op' = "navLinkClick"
    /\ issued' = <<>>
    /\ UNCHANGED <<innerWidth, pointer, hoverTimeout, debounceVars, menuVars,
                   throttleVars>>
    /\ UNCHANGED <<playerVars, formatVars>>

\* click on the nav link of item i, lines 64-72 (the document's click
\* listener of lines 76-85 sees a target inside .nav-item and does nothing)
NavLinkClick(i) ==
    /\ pointer = i
    /\ IF innerWidth <= MobileBreakpoint
       THEN LET isVisible == dropdownStyle[i].visibility = "visible"
            IN  dropdownStyle' = [dropdownStyle EXCEPT ![i] =
                    [opacity    |-> IF isVisible THEN "0" ELSE "1",
                     visibility |-> IF isVisible THEN "hidden" ELSE "visible",
                     transform  |-> IF isVisible THEN "translateY(-10px)"
                                    ELSE "translateY(0)"]]
       ELSE UNCHANGED dropdownStyle
    /\ op' = "navLinkClick"
    /\ issued' = <<>>
    /\ UNCHANGED <<innerWidth, pointer, hoverTimeout, debounceVars, menuVars,
                   throttleVars>>
    /\ UNCHANGED <<playerVars, formatVars>>

\* a mouse click outside every nav item, lines 76-85
OutsideClick ==
    /\ pointer = 0
    /\ dropdownStyle' = [i \in Items |-> ClosedStyle]
    /\ op' = "outsideClick"
    /\ issued' = <<>>
    /\ UNCHANGED <<innerWidth, pointer, hoverTimeout, debounceVars, menuVars,
                   throttleVars>>
    /\ UNCHANGED <<playerVars, formatVars>>

\* the window is resized to width w: the debounced listener is called,
\* line 303; args is the resize event, named by the width it reports
ResizeEvent(w) ==
    /\ innerWidth' = w
    /\ debounceCall(w, ResizeWait)
    /\ op' = "resize"
    /\ issued' = IF dTimeout # NoTimer THEN <<"clearTimeout">> ELSE <<>>
    /\ UNCHANGED <<pointer, dropdownStyle, hoverTimeout, menuVars, throttleVars>>
    /\ UNCHANGED <<playerVars, formatVars>>

\* the debounce timer runs: later() calls the function of lines 303-313
ResizeDebounced ==
    /\ dTimeout = 0
    /\ debounceLater
    /\ dropdownStyle' = [i \in Items |->
            IF innerWidth > MobileBreakpoint THEN EmptyStyle ELSE dropdownStyle[i]]
    /\ op' = "debounced"
    /\ issued' = <<"func", dArgs>>
    /\ UNCHANGED <<innerWidth, pointer, hoverTimeout, menuVars, throttleVars>>
    /\ UNCHANGED <<playerVars, formatVars>>

\* one tick passes while a timer is pending and none is due
NavTick ==
    /\ NavTimers # {}
    /\ 0 \notin NavTimers
    /\ hoverTimeout' = [i \in Items |-> Elapse(hoverTimeout[i])]
    /\ dTimeout' = Elapse(dTimeout)
    /\ dSince' = IF dTimeout # NoTimer THEN dSince + 1 ELSE dSince
    /\ op' = "env"
    /\ issued' = <<>>
    /\ UNCHANGED <<innerWidth, pointer, dropdownStyle, dArgs, dAwaiting,
                   menuVars, throttleVars>>
    /\ UNCHANGED <<playerVars, formatVars>>

----------------------------------------------------------------------------
(* Hamburger menu, script.js lines 337-353 *)

\* click on the hamburger button, lines 341-344
HamburgerClick ==
    /\ hamburgerActive' = ~hamburgerActive
    /\ navActive' = ~navActive
    /\ op' = "hamburgerClick"
    /\ issued' = <<>>
    /\ UNCHANGED <<dropdownVars, debounceVars, throttleVars>>
    /\ UNCHANGED <<playerVars, formatVars>>

MobileLinkClickKeepsNav ==
    /\ hamburgerActive' = FALSE
    /\ navActive' = navActive
    /\ op' = "mobileLinkClick"
    /\ issued' = <<>>
    /\ UNCHANGED <<dropdownVars, debounceVars, throttleVars>>
    /\ UNCHANGED <<playerVars, formatVars>>

\* click on a .mobile-nav-link, lines 348-353
MobileLinkClick ==
    /\ hamburgerActive' = FALSE
    /\ navActive' = FALSE
    /\ op' = "mobileLinkClick"
    /\ issued' = <<>>
    /\ UNCHANGED <<dropdownVars, debounceVars, throttleVars>>
    /\ UNCHANGED <<playerVars, formatVars>>

----------------------------------------------------------------------------
(* The navigation *)

NavNext ==
    \/ \E i \in Items : MouseEnter(i)
    \/ \E i \in Items : MouseLeave(i)
    \/ \E i \in Items : HoverTimerFires(i)
    \/ \E i \in Items : NavLinkClick(i)
    \/ OutsideClick
    \/ \E w \in Widths : ResizeEvent(w)
    \/ ResizeDebounced
    \/ NavTick
    \/ HamburgerClick
    \/ MobileLinkClick

SpecNav == Init /\ [][NavNext]_vars

\* The hover behaviour on its own, at desktop width: mouseenter, mouseleave,
\* the hide timer and clicks outside.
HoverNext ==
    \/ \E i \in Items : MouseEnter(i)
    \/ \E i \in Items : MouseLeave(i)
    \/ \E i \in Items : HoverTimerFires(i)
    \/ OutsideClick
    \/ NavTick

SpecHover == Init /\ [][HoverNext]_vars

----------------------------------------------------------------------------
(* Properties of the navigation *)

\* C13: debounce invokes func once per burst of calls: only when the wait
\* has elapsed since the last call, with that call's arguments, and never
\* while calls keep arriving less than wait apart; a burst that awaits its
\* invocation always has exactly its timer pending, due wait after the last
\* call; the resize listener so resets the dropdown styles once per burst.
DebounceOncePerBurst ==
    /\ [](dAwaiting <=> dTimeout # NoTimer)
    /\ [](dAwaiting =>
            dTimeout = Ticks(ResizeWait) - dSince /\ dArgs = innerWidth)
    /\ [][/\ op' = "debounced" =>
               /\ dAwaiting
               /\ dSince = Ticks(ResizeWait)
               /\ issued' = <<"func", innerWidth>>
               /\ ~dAwaiting'
               /\ innerWidth > MobileBreakpoint =>
                     \A i \in Items : dropdownStyle'[i] = EmptyStyle
          /\ op' # "debounced" => (issued' = <<>> \/ issued'[1] # "func")]_vars

BurstCallPostponed ==
    /\ op = "resize"
    /\ issued = <<"clearTimeout">>
    /\ dAwaiting
    /\ dTimeout = Ticks(ResizeWait)

DropdownStyleConsistent ==
    \A i \in Items : dropdownStyle[i] \in {OpenStyle, ClosedStyle, EmptyStyle}

MobileToggledOneOfTwo ==
    /\ op = "navLinkClick"
    /\ innerWidth <= MobileBreakpoint
    /\ \E i, j \in Items :
          dropdownStyle[i] = ClosedStyle /\ dropdownStyle[j] = OpenStyle

\* C16: the hamburger has class 'is-active' exactly when the nav container
\* has class 'active'; a mobile-nav-link click leaves both unset, and a
\* hamburger click flips both.
MenuClassesAgree ==
    /\ [](hamburgerActive <=> navActive)
    /\ [][/\ op' = "mobileLinkClick" => (~hamburgerActive' /\ ~navActive')
          /\ op' = "hamburgerClick" =>
                (hamburgerActive' = ~hamburgerActive /\ navActive' = ~navActive)]_vars

MenuOpened ==
    /\ op = "hamburgerClick"
    /\ hamburgerActive
    /\ navActive

----------------------------------------------------------------------------
(* throttle, script.js lines 257-267, applied to a stream of calls *)

\* the wait the throttled function is created with, in ms
ThrottleWait == 250
\* the arguments of a call are drawn from 1..NumArgs
NumArgs == 3
\* a stream of calls is followed for this many ticks
MaxStream == 8

\* executedFunction(...args): clearTimeout(timeout); timeout = setTimeout(later, wait)
throttleCall(args, wait) ==
    /\ tTimeout' = Ticks(wait)
    /\ tArgs' = args
    /\ tAwaiting' = TRUE
    /\ tSinceFirst' = IF tAwaiting THEN tSinceFirst ELSE 0

\* later(): clearTimeout(timeout) of the timer that is running; func(...args)
throttleLater ==
    /\ tTimeout' = NoTimer
    /\ tAwaiting' = FALSE
    /\ issued' = <<"func", tArgs>>
    /\ UNCHANGED <<tArgs, tSinceFirst>>

\* the throttled function is called with args a
ThrottledCall(a) ==
    /\ tSinceFirst < MaxStream
    /\ throttleCall(a, ThrottleWait)
    /\ op' = "throttled"
    /\ issued' = <<>>
    /\ UNCHANGED <<dropdownVars, debounceVars, menuVars>>
    /\ UNCHANGED <<playerVars, formatVars>>

\* the timer runs later()
ThrottleTimerFires ==
    /\ tTimeout = 0
    /\ throttleLater
    /\ op' = "later"
    /\ UNCHANGED <<dropdownVars, debounceVars, menuVars>>
    /\ UNCHANGED <<playerVars, formatVars>>

\* one tick passes while the timer is pending and not due
ThrottleTick ==
    /\ tTimeout # NoTimer
    /\ tTimeout # 0
    /\ tTimeout' = Elapse(tTimeout)
    /\ tSinceFirst' = tSinceFirst + 1
    /\ op' = "env"
    /\ issued' = <<>>
    /\ UNCHANGED <<tArgs, tAwaiting>>
    /\ UNCHANGED <<dropdownVars, debounceVars, menuVars>>
    /\ UNCHANGED <<playerVars, formatVars>>

ThrottleNext ==
    \/ \E a \in 1..NumArgs : ThrottledCall(a)
    \/ ThrottleTimerFires
    \/ ThrottleTick

SpecThrottle == Init /\ [][ThrottleNext]_vars

\* C17: while the throttled function keeps being called, func is invoked at
\* least once in every window of length wait after the first call: calls
\* never await an invocation for longer than wait.
ThrottleInvokesWithinWait ==
    tAwaiting => tSinceFirst <= Ticks(ThrottleWait)

====
